---- MODULE Spec2Model ----
(***************************************************************************)
(* Recursive-descent regular-expression parser of src/index.py, modelled   *)
(* as an explicit call-stack machine.  The input r is a sequence of        *)
(* one-character strings; the cursor idx is 0-based as in the source, so   *)
(* the source's r[idx] is At(r, idx).  parse_split, parse_concat and       *)
(* parse_node are mutually recursive and each gets a stack frame;          *)
(* parse_postfix and parse_int are leaf functions and are operators.       *)
(***************************************************************************)
EXTENDS Integers, Sequences, FiniteSets, TLC

VARIABLES
    r,        \* the pattern handed to re_parse
    stack,    \* the call stack, innermost frame last
    ret,      \* the (idx, node) pair returned by the last callee
    status,   \* "running" | "ok" | "error"
    err,      \* the message of the exception that escaped re_parse
    result,   \* the tree re_parse returned
    steps,    \* number of steps taken in the current call of re_parse
    run,      \* 1: first pattern, 2: the same pattern inside parentheses
    first     \* the pattern and the tree of run 1, kept for run 2

vars == <<r, stack, ret, status, err, result, steps, run, first>>

----------------------------------------------------------------------------
(* Bounds of the checked inputs.                                           *)

MaxLen == 4        \* longest pattern over Chars
MaxLit == 6        \* longest pattern over literals and '|'
MaxSmall == 3      \* repetition counts 0..MaxSmall
Margin == 1        \* repetition counts within Margin of the ceiling

----------------------------------------------------------------------------
(* Tree nodes.  Python's None, 'dot', a one-character string and the       *)
(* tagged tuples ('cat', l, r), ('split', l, r), ('repeat', n, min, max).  *)

None == <<"None">>
Dot == <<"dot">>
Chr(c) == <<"chr", c>>
Cat(prev, node) == <<"cat", prev, node>>
Split(prev, node) == <<"split", prev, node>>
Repeat(node, rmin, rmax) == <<"repeat", node, rmin, rmax>>

\* float('inf'): a value no digit run converts to; compared only by RmaxLess.
Inf == -1

\* rmax < rmin, where rmax may be float('inf') (never less than an int).
RmaxLess(rmax, rmin) == rmax # Inf /\ rmax < rmin

\* The limit on the minimum repetition count.
Ceiling == 1000

----------------------------------------------------------------------------
(* Characters.  str.isdigit() is true of the decimal digits and also of    *)
(* digit characters that are not decimal (superscript two, U+00B2, here    *)
(* "sup2"); int() converts only the decimal ones and raises ValueError on  *)
(* the others.                                                             *)

DecDigits == {"0", "1", "2", "3", "4", "5", "6", "7", "8", "9"}
OtherDigits == {"sup2"}

IsDigit(c) == c \in DecDigits \cup OtherDigits

DigitVal(c) ==
    CASE c = "0" -> 0 [] c = "1" -> 1 [] c = "2" -> 2 [] c = "3" -> 3
      [] c = "4" -> 4 [] c = "5" -> 5 [] c = "6" -> 6 [] c = "7" -> 7
      [] c = "8" -> 8 [] c = "9" -> 9

At(s, idx) == s[idx + 1]

\* r[save:idx]
Slice(s, save, idx) == SubSeq(s, save + 1, idx)

ValueError == "ValueError: invalid literal for int() with base 10"

RECURSIVE IntOfDigits(_)
\* int(text) of a non-empty run of decimal digits.
IntOfDigits(text) ==
    IF Len(text) = 0 THEN 0
    ELSE 10 * IntOfDigits(SubSeq(text, 1, Len(text) - 1)) + DigitVal(text[Len(text)])

\* int(text): the value, or a ValueError.
PyInt(text) ==
    IF \E k \in 1..Len(text) : text[k] \notin DecDigits
    THEN [val |-> 0, err |-> ValueError]
    ELSE [val |-> IntOfDigits(text), err |-> ""]

RECURSIVE ScanDigits(_, _)
\* while idx < len(r) and r[idx].isdigit(): idx += 1
ScanDigits(s, idx) ==
    IF idx < Len(s) /\ IsDigit(At(s, idx)) THEN ScanDigits(s, idx + 1) ELSE idx

\* parse_int: (idx, int or None), or the exception int() raises.
parse_int(s, idx) ==
    LET save == idx
        end == ScanDigits(s, idx)
        conv == PyInt(Slice(s, save, end))
    IN  IF save = end
        THEN [idx |-> end, none |-> TRUE, val |-> 0, err |-> ""]
        ELSE [idx |-> end, none |-> FALSE, val |-> conv.val, err |-> conv.err]

----------------------------------------------------------------------------
(* parse_postfix.  The result is (idx, node), or the exception raised.     *)

Returned(idx, node) == [idx |-> idx, node |-> node, err |-> ""]
Raised(msg) == [idx |-> 0, node |-> None, err |-> msg]

\* MakeRepeat without the limit on the minimum.
MakeRepeatNoCeiling(idx, node, rmin, rmax) ==
    IF RmaxLess(rmax, rmin) THEN Raised("min repeat greater than max repeat")
    ELSE Returned(idx, Repeat(node, rmin, rmax))

\* MakeRepeat with the limit applied to the maximum as well.
MakeRepeatMaxCeiling(idx, node, rmin, rmax) ==
    IF RmaxLess(rmax, rmin) THEN Raised("min repeat greater than max repeat")
    ELSE IF rmin > Ceiling \/ rmax > Ceiling
         THEN Raised("the repetition number is too large")
    ELSE Returned(idx, Repeat(node, rmin, rmax))

\* The sanity checks and the construction of the repeat node.
MakeRepeat(idx, node, rmin, rmax) ==
    IF RmaxLess(rmax, rmin) THEN Raised("min repeat greater than max repeat")
    ELSE IF rmin > Ceiling THEN Raised("the repetition number is too large")
    ELSE Returned(idx, Repeat(node, rmin, rmax))

\* The '{' branch: {m}, {m,} and {m,n}.
ParseBrace(s, idx, node) ==
    LET pi == parse_int(s, idx)
        comma == pi.idx < Len(s) /\ At(s, pi.idx) = ","
        pj == parse_int(s, pi.idx + 1)
        rmin == pi.val
        rmax == IF comma THEN (IF pj.none THEN Inf ELSE pj.val) ELSE pi.val
        at == IF comma THEN pj.idx ELSE pi.idx
    IN  IF pi.err # "" THEN Raised(pi.err)
        ELSE IF pi.none THEN Raised("expect int")
        ELSE IF comma /\ pj.err # "" THEN Raised(pj.err)
        ELSE IF at < Len(s) /\ At(s, at) = "}"
             THEN MakeRepeat(at + 1, node, rmin, rmax)
             ELSE Raised("unbalanced brace")

parse_postfix(s, idx, node) ==
    IF idx = Len(s) \/ At(s, idx) \notin {"*", "+", "{"}
    THEN Returned(idx, node)
    ELSE LET ch == At(s, idx)
         IN  IF ch = "*" THEN MakeRepeat(idx + 1, node, 0, Inf)
             ELSE IF ch = "+" THEN MakeRepeat(idx + 1, node, 1, Inf)
             ELSE ParseBrace(s, idx + 1, node)

----------------------------------------------------------------------------
(* The call stack.                                                         *)

Frame(fn, pc, idx) ==
    [fn |-> fn, pc |-> pc, start |-> idx, idx |-> idx, prev |-> None, node |-> None]

NoRet == [fn |-> "", start |-> 0, idx |-> 0, node |-> None]

Top == stack[Len(stack)]
Running(fn, pc) ==
    /\ status = "running"
    /\ Len(stack) > 0
    /\ Top.fn = fn
    /\ Top.pc = pc

\* The stack with its top frame replaced.
SetTop(f) == [stack EXCEPT ![Len(stack)] = f]
Push(f, g) == Append(SetTop(f), g)
Pop == SubSeq(stack, 1, Len(stack) - 1)

\* return idx, node
Return(idx, node) ==
    /\ stack' = Pop
    /\ ret' = [fn |-> Top.fn, start |-> Top.start, idx |-> idx, node |-> node]
    /\ steps' = steps + 1
    /\ UNCHANGED <<r, status, err, result, run, first>>

\* raise Exception(msg): nothing catches it, the whole stack unwinds.
Raise(msg) ==
    /\ stack' = <<>>
    /\ ret' = NoRet
    /\ status' = "error"
    /\ err' = msg
    /\ steps' = steps + 1
    /\ UNCHANGED <<r, result, run, first>>

\* A step that stays in, or calls out of, the top frame.
Goto(newStack) ==
    /\ stack' = newStack
    /\ ret' = NoRet
    /\ steps' = steps + 1
    /\ UNCHANGED <<r, status, err, result, run, first>>

----------------------------------------------------------------------------
(* re_parse                                                                *)

\* idx, node = parse_split(r, 0): the call.
ReParseCall ==
    /\ Running("re_parse", "call")
    /\ Goto(Push([Top EXCEPT !.pc = "check"], Frame("parse_split", "first", 0)))

\* The call's return, the end-of-string check and the return of the root.
ReParseCheck ==
    /\ Running("re_parse", "check")
    /\ IF ret.idx # Len(r)
       THEN Raise("unexpected \")\"")
       ELSE /\ stack' = <<>>
            /\ ret' = NoRet
            /\ status' = "ok"
            /\ result' = ret.node
            /\ steps' = steps + 1
            /\ UNCHANGED <<r, err, run, first>>

----------------------------------------------------------------------------
(* parse_split                                                             *)

\* idx, prev = parse_concat(r, idx): the call.
SplitFirst ==
    /\ Running("parse_split", "first")
    /\ Goto(Push([Top EXCEPT !.pc = "first_ret"],
                 Frame("parse_concat", "loop", Top.idx)))

\* idx, prev = parse_concat(r, idx): the assignment.
SplitFirstRet ==
    /\ Running("parse_split", "first_ret")
    /\ Goto(SetTop([Top EXCEPT !.pc = "loop", !.idx = ret.idx, !.prev = ret.node]))

\* The loop test with its two breaks, then the call of parse_concat for the
\* right side, or the return.
SplitLoop ==
    /\ Running("parse_split", "loop")
    /\ IF Top.idx < Len(r) /\ At(r, Top.idx) # ")" /\ At(r, Top.idx) = "|"
       THEN Goto(Push([Top EXCEPT !.pc = "next_ret"],
                      Frame("parse_concat", "loop", Top.idx + 1)))
       ELSE Return(Top.idx, Top.prev)

\* idx, node = parse_concat(r, idx + 1); prev = ('split', prev, node)
SplitNextRet ==
    /\ Running("parse_split", "next_ret")
    /\ Goto(SetTop([Top EXCEPT !.pc = "loop", !.idx = ret.idx, !.node = ret.node,
                               !.prev = Split(Top.prev, ret.node)]))

----------------------------------------------------------------------------
(* parse_concat                                                            *)

\* ConcatLoop that also stops at '}'.
ConcatLoopStopsAtBrace ==
    /\ Running("parse_concat", "loop")
    /\ IF Top.idx < Len(r) /\ At(r, Top.idx) \notin {"|", ")", "}"}
       THEN Goto(Push([Top EXCEPT !.pc = "node_ret"],
                      Frame("parse_node", "enter", Top.idx)))
       ELSE Return(Top.idx, Top.prev)

\* ConcatLoop that stops at ')' only, and hands a '|' to parse_node.
ConcatLoopEatsBar ==
    /\ Running("parse_concat", "loop")
    /\ IF Top.idx < Len(r) /\ At(r, Top.idx) # ")"
       THEN Goto(Push([Top EXCEPT !.pc = "node_ret"],
                      Frame("parse_node", "enter", Top.idx)))
       ELSE Return(Top.idx, Top.prev)

\* The loop test with its break, then the call of parse_node, or the return.
\* prev = None is the frame's initial prev.
ConcatLoop ==
    /\ Running("parse_concat", "loop")
    /\ IF Top.idx < Len(r) /\ At(r, Top.idx) \notin {"|", ")"}
       THEN Goto(Push([Top EXCEPT !.pc = "node_ret"],
                      Frame("parse_node", "enter", Top.idx)))
       ELSE Return(Top.idx, Top.prev)

\* ConcatFold with the operands of 'cat' exchanged.
ConcatFoldSwapped(prev, node) == IF prev = None THEN node ELSE Cat(node, prev)

\* The fold of parse_concat's loop body.
ConcatFold(prev, node) == IF prev = None THEN node ELSE Cat(prev, node)

\* idx, node = parse_node(r, idx) and the fold into prev.
ConcatNodeRet ==
    /\ Running("parse_concat", "node_ret")
    /\ Goto(SetTop([Top EXCEPT !.pc = "loop", !.idx = ret.idx, !.node = ret.node,
                               !.prev = ConcatFold(Top.prev, ret.node)]))

----------------------------------------------------------------------------
(* parse_node                                                              *)

\* The node of a character that opens no group.
CharNode(ch) == IF ch = "." THEN Dot ELSE Chr(ch)

\* NodeEnter that forgets idx += 1 for a character that opens no group.
NodeEnterNoAdvance ==
    /\ Running("parse_node", "enter")
    /\ IF Top.idx >= Len(r)
       THEN Return(Top.idx, None)
       ELSE LET ch == At(r, Top.idx)
                idx == Top.idx + 1
            IN  IF ch = "("
                THEN Goto(Push([Top EXCEPT !.pc = "group_ret", !.idx = idx],
                               Frame("parse_split", "first", idx)))
                ELSE Goto(SetTop([Top EXCEPT !.pc = "postfix",
                                             !.node = CharNode(ch)]))

\* NodeEnter that rejects a repetition character with nothing before it.
NodeEnterRejectsOperator ==
    /\ Running("parse_node", "enter")
    /\ IF Top.idx >= Len(r)
       THEN Return(Top.idx, None)
       ELSE LET ch == At(r, Top.idx)
                idx == Top.idx + 1
            IN  IF ch = "("
                THEN Goto(Push([Top EXCEPT !.pc = "group_ret", !.idx = idx],
                               Frame("parse_split", "first", idx)))
                ELSE IF ch \in {"*", "+", "{"}
                THEN Raise("nothing to repeat")
                ELSE Goto(SetTop([Top EXCEPT !.pc = "postfix", !.idx = idx,
                                             !.node = CharNode(ch)]))

\* The exhausted-string return, the read of ch, and the three branches up to
\* the call of parse_split or the node of the character.
NodeEnter ==
    /\ Running("parse_node", "enter")
    /\ IF Top.idx >= Len(r)
       THEN Return(Top.idx, None)
       ELSE LET ch == At(r, Top.idx)
                idx == Top.idx + 1
            IN  IF ch = "("
                THEN Goto(Push([Top EXCEPT !.pc = "group_ret", !.idx = idx],
                               Frame("parse_split", "first", idx)))
                ELSE Goto(SetTop([Top EXCEPT !.pc = "postfix", !.idx = idx,
                                             !.node = CharNode(ch)]))

\* idx, node = parse_split(r, idx) and the check of the closing parenthesis.
NodeGroupRet ==
    /\ Running("parse_node", "group_ret")
    /\ IF ret.idx < Len(r) /\ At(r, ret.idx) = ")"
       THEN Goto(SetTop([Top EXCEPT !.pc = "postfix", !.idx = ret.idx + 1,
                                    !.node = ret.node]))
       ELSE Raise("unbalanced parenthesis")

\* idx, node = parse_postfix(r, idx, node); return idx, node
NodePostfix ==
    /\ Running("parse_node", "postfix")
    /\ LET p == parse_postfix(r, Top.idx, Top.node)
       IN  IF p.err # "" THEN Raise(p.err) ELSE Return(p.idx, p.node)

----------------------------------------------------------------------------
(* The driver: re_parse is called on one pattern after another.            *)

Start(s, n, f) ==
    /\ r = s
    /\ stack = <<Frame("re_parse", "call", 0)>>
    /\ ret = NoRet
    /\ status = "running"
    /\ err = ""
    /\ result = None
    /\ steps = 0
    /\ run = n
    /\ first = f

NoFirst == [r |-> <<>>, result |-> None]

\* What may follow the group in run 2: nothing, or one more atom.
Tails == {<<>>, <<"c">>}

\* After a pattern X was accepted, re_parse is called on '(' + X + ')' and on
\* '(' + X + ')c'.
Regroup ==
    /\ status = "ok"
    /\ run = 1
    /\ \E tail \in Tails : r' = <<"(">> \o r \o <<")">> \o tail
    /\ stack' = <<Frame("re_parse", "call", 0)>>
    /\ ret' = NoRet
    /\ status' = "running"
    /\ err' = ""
    /\ result' = None
    /\ steps' = 0
    /\ run' = 2
    /\ first' = [r |-> r, result |-> result]

Step ==
    \/ ReParseCall
    \/ ReParseCheck
    \/ SplitFirst
    \/ SplitFirstRet
    \/ SplitLoop
    \/ SplitNextRet
    \/ ConcatLoop
    \/ ConcatNodeRet
    \/ NodeEnter
    \/ NodeGroupRet
    \/ NodePostfix

----------------------------------------------------------------------------
(* Inputs.                                                                 *)

RECURSIVE Strs(_, _)
\* All sequences over alphabet of length at most n.
Strs(alphabet, n) ==
    IF n = 0 THEN {<<>>}
    ELSE LET shorter == Strs(alphabet, n - 1)
         IN  shorter \cup {Append(s, c) : s \in shorter, c \in alphabet}

\* Patterns over the grammar's characters.
Chars == {"a", "|", "(", ")", "*", "+", "{", "}", ","}

\* Patterns of ordinary characters and '|'.
LitChars == {"a", "b", "|"}

DigitChar(d) ==
    CASE d = 0 -> "0" [] d = 1 -> "1" [] d = 2 -> "2" [] d = 3 -> "3"
      [] d = 4 -> "4" [] d = 5 -> "5" [] d = 6 -> "6" [] d = 7 -> "7"
      [] d = 8 -> "8" [] d = 9 -> "9"

RECURSIVE Digits(_)
\* The decimal text of n >= 0.
Digits(n) ==
    IF n < 10 THEN <<DigitChar(n)>>
    ELSE Append(Digits(n \div 10), DigitChar(n % 10))

\* Repetition counts: small ones, and those around the ceiling.
Counts == (0..MaxSmall) \cup ((Ceiling - Margin)..(Ceiling + Margin))

\* A maximum far above the ceiling.
Huge == Ceiling * Ceiling * Ceiling

\* Atoms a repetition suffix is attached to, with the node of each.
Atoms == {<<"a">>, <<".">>, <<"(", "a", "|", "b", ")">>}
AtomNode(a) ==
    IF a = <<"a">> THEN Chr("a")
    ELSE IF a = <<".">> THEN Dot
    ELSE Split(Chr("a"), Chr("b"))

\* Digit runs: the counts' decimal texts, the empty run, and a run with a
\* digit character that is not decimal.
MinTexts == {Digits(m) : m \in Counts} \cup {<<>>, <<"1", "sup2">>}
MaxTexts == {Digits(n) : n \in Counts \cup {Huge}} \cup {<<>>, <<"sup2">>}

\* atom{m}, atom{m,}, atom{m,n}, with or without the closing brace, and the
\* unbraced suffixes.
Braces ==
    {<<"{">> \o m \o close : m \in MinTexts, close \in {<<>>, <<"}">>}}
    \cup {<<"{">> \o m \o <<",">> \o n \o close :
            m \in MinTexts, n \in MaxTexts, close \in {<<>>, <<"}">>}}
Suffixes == Braces \cup {<<"*">>, <<"+">>, <<>>}
RepInputs == {a \o s \o t : a \in Atoms, s \in Suffixes, t \in {<<>>, <<"{">>}}

Inputs == Strs(Chars, MaxLen) \cup Strs(LitChars, MaxLit) \cup RepInputs

Init == \E s \in Inputs : Start(s, 1, NoFirst)

Next == Step

Spec == Init /\ [][Next]_vars

\* Patterns with groups, each parsed alone and then inside parentheses.
GroupChars == {"a", "b", "|", "(", ")", "*"}

InitGroup == \E s \in Strs(GroupChars, MaxLen) : Start(s, 1, NoFirst)

NextGroup == Step \/ Regroup

SpecGroup == InitGroup /\ [][NextGroup]_vars

----------------------------------------------------------------------------
(* Properties.                                                             *)

Done == status # "running"

\* The frames of the stack.
Frames == {stack[i] : i \in 1..Len(stack)}

Unexpected == "unexpected \")\""

\* The fixed table of messages.
Messages ==
    {Unexpected, "unbalanced parenthesis", "expect int", "unbalanced brace",
     "min repeat greater than max repeat", "the repetition number is too large"}

\* C1: every failure of re_parse carries one of the six fixed messages; no
\* other failure escapes, the conversion of a digit run in {...} included.
C1_OnlyFixedMessages == status = "error" => err \in Messages

\* C2: re_parse raises 'unexpected ")"' exactly when the top-level
\* parse_split returned at a cursor idx < len(r), the character there is
\* always ')', and with idx = len(r) re_parse returns the root node.
C2_UnexpectedParen ==
    [][/\ Running("re_parse", "check") =>
            /\ ret.fn = "parse_split"
            /\ ret.idx <= Len(r)
            /\ ret.idx < Len(r) =>
                  /\ At(r, ret.idx) = ")"
                  /\ status' = "error"
                  /\ err' = Unexpected
            /\ ret.idx = Len(r) =>
                  /\ status' = "ok"
                  /\ result' = ret.node
       /\ (status' = "error" /\ err' = Unexpected) =>
            /\ Running("re_parse", "check")
            /\ ret.idx < Len(r)]_vars

\* C2's case: the top-level parse stopped early and re_parse raised.
C2_Witness ==
    /\ status = "error"
    /\ err = Unexpected
    /\ Len(r) = MaxLen

RECURSIVE RepeatsSane(_)
\* Every repeat node of the tree has min <= max and min <= 1000.
RepeatsSane(node) ==
    IF node[1] = "repeat"
    THEN /\ node[4] = Inf \/ node[3] <= node[4]
         /\ node[3] <= 1000
         /\ RepeatsSane(node[2])
    ELSE IF node[1] \in {"cat", "split"}
    THEN RepeatsSane(node[2]) /\ RepeatsSane(node[3])
    ELSE TRUE

\* The patterns atom{m}, atom{m,} and atom{m,n}.
Exactly(a, m) == a \o <<"{">> \o Digits(m) \o <<"}">>
AtLeast(a, m) == a \o <<"{">> \o Digits(m) \o <<",", "}">>
Between(a, m, n) == a \o <<"{">> \o Digits(m) \o <<",">> \o Digits(n) \o <<"}">>

Rejected(msg) == status = "error" /\ err = msg

\* The repetitions with min > 1000 or max < min, each with its message.
OutOfBounds ==
    {<<Exactly(a, m), "the repetition number is too large">> :
        a \in Atoms, m \in {c \in Counts : c > 1000}}
    \cup {<<AtLeast(a, m), "the repetition number is too large">> :
        a \in Atoms, m \in {c \in Counts : c > 1000}}
    \cup {<<Between(a, b[1], b[2]), "the repetition number is too large">> :
        a \in Atoms,
        b \in {c \in Counts \X (Counts \cup {Huge}) : c[1] > 1000 /\ c[2] >= c[1]}}
    \cup {<<Between(a, b[1], b[2]), "min repeat greater than max repeat">> :
        a \in Atoms,
        b \in {c \in Counts \X (Counts \cup {Huge}) : c[2] < c[1]}}

\* C3: every repeat node of a returned tree, and of every tree under
\* construction, has min <= max and min <= 1000; a repetition with
\* max < min or min > 1000 is rejected and no tree is returned.
C3_RepeatBounds ==
    /\ status = "ok" => RepeatsSane(result)
    /\ \A f \in Frames : RepeatsSane(f.prev) /\ RepeatsSane(f.node)
    /\ RepeatsSane(ret.node)
    /\ Done => \A e \in OutOfBounds : r = e[1] => Rejected(e[2])

\* C3's case: a returned repeat node whose minimum is the limit itself.
C3_Witness ==
    /\ status = "ok"
    /\ result[1] = "repeat"
    /\ result[3] = 1000
    /\ result[4] = 1000 + Margin

\* The pattern holds only ordinary characters and '|' separators.
LitOnly(s) == \A k \in 1..Len(s) : s[k] \in LitChars

\* No branch of the pattern is empty.
NonEmptyBranches(s) ==
    /\ Len(s) > 0
    /\ s[1] # "|"
    /\ s[Len(s)] # "|"
    /\ \A k \in 1..(Len(s) - 1) : ~(s[k] = "|" /\ s[k + 1] = "|")

RECURSIVE LeftCat(_)
\* Concat(...Concat(c1, c2)..., ck) of a non-empty run of characters.
LeftCat(s) ==
    IF Len(s) = 1 THEN Chr(s[1])
    ELSE Cat(LeftCat(SubSeq(s, 1, Len(s) - 1)), Chr(s[Len(s)]))

RECURSIVE LeftSplit(_)
\* Split(...Split(b1, b2)..., bk) of the branches, each a LeftCat.
LeftSplit(s) ==
    LET bars == {k \in 1..Len(s) : s[k] = "|"}
        last == CHOOSE k \in bars : \A j \in bars : j <= k
    IN  IF bars = {} THEN LeftCat(s)
        ELSE Split(LeftSplit(SubSeq(s, 1, last - 1)),
                   LeftCat(SubSeq(s, last + 1, Len(s))))

\* C4: a pattern of ordinary characters and '|' with non-empty branches
\* parses to the left fold of Split over its branches, each branch the left
\* fold of Concat over its characters.
C4_LeftFolds ==
    (Done /\ LitOnly(r) /\ NonEmptyBranches(r)) =>
        /\ status = "ok"
        /\ result = LeftSplit(r)

\* C4's case: three branches, one of them of two characters.
C4_Witness ==
    /\ status = "ok"
    /\ LitOnly(r)
    /\ NonEmptyBranches(r)
    /\ Cardinality({k \in 1..Len(r) : r[k] = "|"}) = 2
    /\ Len(r) = 6

Accepted(tree) == status = "ok" /\ result = tree

\* An atom with one suffix whose m <= 1000 and n >= m, and the tree expected.
Suffixed ==
    {<<a \o <<"*">>, Repeat(AtomNode(a), 0, Inf)>> : a \in Atoms}
    \cup {<<a \o <<"+">>, Repeat(AtomNode(a), 1, Inf)>> : a \in Atoms}
    \cup {<<Exactly(a, m), Repeat(AtomNode(a), m, m)>> :
        a \in Atoms, m \in {c \in Counts : c <= 1000}}
    \cup {<<AtLeast(a, m), Repeat(AtomNode(a), m, Inf)>> :
        a \in Atoms, m \in {c \in Counts : c <= 1000}}
    \cup {<<Between(a, b[1], b[2]), Repeat(AtomNode(a), b[1], b[2])>> :
        a \in Atoms,
        b \in {c \in Counts \X (Counts \cup {Huge}) : c[1] <= 1000 /\ c[2] >= c[1]}}

ConcatAtStart ==
    /\ Running("parse_concat", "loop")
    /\ Top.idx = Top.start
    /\ Top.prev = None

\* The cursor of the top frame is at end-of-input, at '|' or at ')'.
AtBoundary == Top.idx = Len(r) \/ At(r, Top.idx) \in {"|", ")"}

\* C6: a parse_concat that starts at end-of-input, at '|' or at ')' returns
\* (idx, None) at once: nothing consumed, nothing raised.  So '' gives
\* Empty, 'a|' gives Split(a, Empty), '|' gives Split(Empty, Empty) and '()'
\* gives Empty.
C6_EmptyConcat ==
    [][/\ (ConcatAtStart /\ AtBoundary) =>
            /\ status' = "running"
            /\ stack' = Pop
            /\ ret' = [fn |-> "parse_concat", start |-> Top.start,
                       idx |-> Top.start, node |-> None]
       /\ (status' # "running") =>
            /\ r = <<>> => (status' = "ok" /\ result' = None)
            /\ r = <<"a", "|">> => (status' = "ok" /\ result' = Split(Chr("a"), None))
            /\ r = <<"|">> => (status' = "ok" /\ result' = Split(None, None))
            /\ r = <<"(", ")">> => (status' = "ok" /\ result' = None)]_vars

\* C6's case: a parse_concat started at a '|' has returned Empty.
C6_Witness ==
    /\ ret.fn = "parse_concat"
    /\ ret.idx = ret.start
    /\ ret.node = None
    /\ ret.start < Len(r)
    /\ At(r, ret.start) = "|"

\* C7: for every accepted pattern X with tree T, '(' + X + ')' is accepted
\* with the same tree T, and '(' + X + ')c' gives Concat(T, Literal(c)): the
\* group is one operand of Concat and adds no node of its own.
C7_GroupTransparent ==
    (run = 2 /\ Done) =>
        /\ status = "ok"
        /\ r = <<"(">> \o first.r \o <<")">> => result = first.result
        /\ r = <<"(">> \o first.r \o <<")", "c">> =>
              result = Cat(first.result, Chr("c"))

\* The part of C7 the code satisfies: the group alone always gives T, and
\* followed by an atom it is the left operand of Concat unless T is Empty.
GroupTransparentUnlessEmpty ==
    (run = 2 /\ Done) =>
        /\ status = "ok"
        /\ r = <<"(">> \o first.r \o <<")">> => result = first.result
        /\ (r = <<"(">> \o first.r \o <<")", "c">> /\ first.result # None) =>
              result = Cat(first.result, Chr("c"))

\* An atom of the running parse_concat has returned.
AtomReturned == Running("parse_concat", "node_ret")

\* C8: parse_concat folds every atom it parses: the first atom's node is the
\* accumulator, and each later atom n gives Concat(accumulated, n), also
\* when a node is Empty; so '()a' gives Concat(Empty, a) and 'a()' gives
\* Concat(a, Empty).
C8_FoldsEveryAtom ==
    [][/\ (AtomReturned /\ Top.idx = Top.start) =>
            stack'[Len(stack)].prev = ret.node
       /\ (AtomReturned /\ Top.idx > Top.start) =>
            stack'[Len(stack)].prev = Cat(Top.prev, ret.node)
       /\ (status' = "ok" /\ r = <<"(", ")", "a">>) =>
            result' = Cat(None, Chr("a"))
       /\ (status' = "ok" /\ r = <<"a", "(", ")">>) =>
            result' = Cat(Chr("a"), None)]_vars

\* The program points of the actions' guards: at each of them the
\* frame's action is enabled, whatever the frame holds.
ProgramPoints ==
    {<<"re_parse", "call">>, <<"re_parse", "check">>,
     <<"parse_split", "first">>, <<"parse_split", "first_ret">>,
     <<"parse_split", "loop">>, <<"parse_split", "next_ret">>,
     <<"parse_concat", "loop">>, <<"parse_concat", "node_ret">>,
     <<"parse_node", "enter">>, <<"parse_node", "group_ret">>,
     <<"parse_node", "postfix">>}

\* The most steps a call of re_parse takes on a pattern of n characters.
StepBound(n) == 5 * n + 6

\* The scan cursor of a running call: the index just returned, or the top
\* frame's idx.
Cursor == IF ret.fn # "" THEN ret.idx ELSE Top.idx

\* A call takes at most StepBound(len(r)) steps and is never stuck before it
\* ends; every frame's cursor is at or after the cursor it was given, a
\* callee starts at or after its caller's cursor, every return is at or
\* after the callee's start, a parse_node returns after its start, and an
\* iteration of parse_split's loop resumes parse_concat past the '|'.
Progressing ==
    /\ status = "running" => (Len(stack) > 0 /\ <<Top.fn, Top.pc>> \in ProgramPoints)
    /\ steps <= StepBound(Len(r))
    /\ \A i \in 1..Len(stack) :
          /\ stack[i].start <= stack[i].idx
          /\ stack[i].idx <= Len(r)
          /\ i < Len(stack) => stack[i].idx <= stack[i + 1].start
          /\ (i < Len(stack) /\ stack[i].fn = "parse_split"
                /\ stack[i].pc = "next_ret") =>
                stack[i + 1].start = stack[i].idx + 1
    /\ ret.fn # "" =>
          /\ ret.start <= ret.idx
          /\ ret.idx <= Len(r)
          /\ Top.idx <= ret.start
          /\ ret.fn = "parse_node" => ret.start < ret.idx
          /\ Running("parse_split", "next_ret") => Top.idx < ret.idx

SuffixChars == {"*", "+", "{", ",", "}"}

\* C10: a character of the repetition syntax met where an atom starts (at
\* the start of the pattern, after '|' or '(', after a finished suffix) is
\* a Literal and raises nothing, and parse_node applies at most one suffix:
\* it returns its atom, or one repeat node around it.
C10_OperatorAsLiteral ==
    [][/\ (Running("parse_node", "enter") /\ At(r, Top.idx) \in SuffixChars) =>
            /\ status' = "running"
            /\ stack' = SetTop([Top EXCEPT !.pc = "postfix", !.idx = Top.idx + 1,
                                           !.node = Chr(At(r, Top.idx))])
       /\ (Running("parse_node", "postfix") /\ status' = "running") =>
            \/ ret'.node = Top.node /\ ret'.idx = Top.idx
            \/ /\ ret'.node[1] = "repeat"
               /\ ret'.node[2] = Top.node
               /\ ret'.idx > Top.idx
               /\ At(r, Top.idx) \in {"*", "+", "{"}
       /\ (status' # "running") => \A c \in SuffixChars :
            /\ r = <<c>> => (status' = "ok" /\ result' = Chr(c))
            /\ r = <<"a", "|", c>> =>
                  (status' = "ok" /\ result' = Split(Chr("a"), Chr(c)))
            /\ r = <<"(", c, ")">> => (status' = "ok" /\ result' = Chr(c))
            /\ r = <<"a", "*", c>> =>
                  (status' = "ok" /\ result' = Cat(Repeat(Chr("a"), 0, Inf), Chr(c)))]_vars

\* C10's case: 'a**' parsed to Concat(Repeat(a, 0, inf), Literal('*')).
C10_Witness ==
    /\ r = <<"a", "*", "*">>
    /\ status = "ok"
    /\ result = Cat(Repeat(Chr("a"), 0, Inf), Chr("*"))

====
